---- MODULE Spec2Model ----
(***************************************************************************)
(* Attribute negotiation and layered-name translation of the utility       *)
(* provider code, prov/util/src/util_attr.c.                               *)
(*                                                                         *)
(* The functions of the file keep no state between calls, so every         *)
(* specification below draws the arguments of a call from bounded sets     *)
(* and records the arguments, the heap objects and the results of the      *)
(* call in the variables.  Four specifications share the variables:        *)
(*   SpecName     the name codec (utilx_parse_name and its callers)        *)
(*   SpecGetinfo  utilx_getinfo, statement by statement                    *)
(*   SpecCheck    fi_check_info and the per-group checkers                 *)
(*   SpecAlter    fi_alter_info                                            *)
(***************************************************************************)
EXTENDS Integers, Sequences, FiniteSets, TLC

VARIABLES
    op,          \* the function called last ("none" before the first call)
    ret,         \* its return value
    \* ---- name codec
    name,        \* utilx_parse_name: const char *name
    max_tok,     \* utilx_parse_name: int max_tok
    get_prefix,  \* utilx_parse_name: int get_prefix
    name_dup,    \* bytes of the strdup'ed copy, terminator included
    dup_state,   \* "none" | "live" | "freed" | "bad_free"
    nalloc,      \* allocations made by utilx_parse_name in the call
    tok,         \* tok[]: offsets into name_dup
    ub,          \* undefined behaviour met by the call
    crashed,     \* the call did not return (one outcome of undefined behaviour)
    base_attr,   \* the base provider's attribute (input of utilx_tr_base_*)
    layer_attr,  \* the layered attribute (output of utilx_tr_base_*, input of utilx_tr_layer_*)
    tr_attr,     \* the attribute utilx_tr_layer_* filled in
    \* ---- utilx_getinfo
    pc,          \* position inside utilx_getinfo
    gi,          \* arguments and collaborators' answers of the call
    base_hints,  \* "none" | "live" | "freed"
    base_info,   \* "none" | "live" | "freed"
    info_out,    \* *info: "unset" | "base_info" | "layer_info"
    nfree,       \* fi_freeinfo calls per record
    \* ---- checker
    prov_info,   \* the provider's record
    user_info,   \* the requested record (hints)
    log,         \* the diagnostic emitted by the call ("" when none)
    \* ---- alteration
    info_in,     \* the record before fi_alter_info
    hints,       \* the hints of fi_alter_info
    info         \* the record after fi_alter_info

commonVars == <<op, ret>>
nameVars == <<name, max_tok, get_prefix, name_dup, dup_state, nalloc, tok, ub,
              crashed, base_attr, layer_attr, tr_attr>>
giVars == <<pc, gi, base_hints, base_info, info_out, nfree>>
chkVars == <<prov_info, user_info, log>>
altVars == <<info_in, hints, info>>
vars == <<commonVars, nameVars, giVars, chkVars, altVars>>

Unused == "unused"

(***************************************************************************)
(* Bounds of the model.                                                    *)
(***************************************************************************)
MaxLen == 4        \* longest name handed to the codec directly
MaxBaseLen == 3    \* longest base domain / fabric name that is composed
MaxGarbage == 1    \* bytes read past the end of a buffer that are modelled
MaxTok == 3        \* largest token array of a caller (char *tok[3])

(***************************************************************************)
(* Error numbers (include/rdma/fi_errno.h).                                *)
(***************************************************************************)
FI_ENOMEM == 12
FI_ENODATA == 61
FI_EOTHER == 257

(***************************************************************************)
(* C strings.  A character is a one-letter string, NUL the terminator.  A  *)
(* buffer is the sequence of its bytes; a pointer into it is a 0-based     *)
(* offset.                                                                 *)
(***************************************************************************)
NUL == "NUL"
delim == "_"
Letters == {"a", "b", "A"}
Alphabet == Letters \cup {delim}

StringsOver(S, n) == UNION {[1..k -> S] : k \in 0..n}

\* the offset of the first NUL at or after off, Len(buf) when there is none
RECURSIVE ScanNul(_, _)
ScanNul(buf, off) ==
    IF off >= Len(buf) THEN Len(buf)
    ELSE IF buf[off + 1] = NUL THEN off
    ELSE ScanNul(buf, off + 1)

Terminated(buf, off) == ScanNul(buf, off) < Len(buf)
strlen(buf, off) == ScanNul(buf, off) - off
CStr(buf, off) == SubSeq(buf, off + 1, ScanNul(buf, off))
strdup(s) == s \o <<NUL>>

\* strspn(s, delim)
RECURSIVE SkipDelim(_, _)
SkipDelim(buf, off) ==
    IF buf[off + 1] = delim THEN SkipDelim(buf, off + 1) ELSE off

\* strcspn(s, delim)
RECURSIVE SkipToken(_, _)
SkipToken(buf, off) ==
    IF buf[off + 1] = NUL \/ buf[off + 1] = delim THEN off
    ELSE SkipToken(buf, off + 1)

\* strtok_r(s, "_", &save_ptr), s being buf + off (the saved pointer on the
\* calls after the first)
strtok_r(buf, off) ==
    IF buf[off + 1] = NUL
    THEN [found |-> FALSE, tok |-> off, buf |-> buf, save |-> off]
    ELSE LET b == SkipDelim(buf, off) IN
         IF buf[b + 1] = NUL
         THEN [found |-> FALSE, tok |-> b, buf |-> buf, save |-> b]
         ELSE LET e == SkipToken(buf, b) IN
              IF buf[e + 1] = NUL
              THEN [found |-> TRUE, tok |-> b, buf |-> buf, save |-> e]
              ELSE [found |-> TRUE, tok |-> b,
                    buf |-> [buf EXCEPT ![e + 1] = NUL], save |-> e + 1]

\* the loop of utilx_parse_name: for (i = 0; i < max_tok; name_ref = NULL, i++)
RECURSIVE TokLoop(_, _, _, _)
TokLoop(buf, save, k, toks) ==
    IF Len(toks) >= k THEN [buf |-> buf, tok |-> toks]
    ELSE LET r == strtok_r(buf, save) IN
         IF ~r.found THEN [buf |-> r.buf, tok |-> toks]
         ELSE TokLoop(r.buf, r.save, k, Append(toks, r.tok))

RECURSIVE SumLen(_, _, _)
SumLen(buf, toks, i) ==
    IF i > Len(toks) THEN 0
    ELSE strlen(buf, toks[i]) + 1 + SumLen(buf, toks, i + 1)

\* utilx_parse_name without the free(name_dup) of its error path
utilx_parse_name_noFree(nm, k, gp, oom) ==
    IF oom = 1
    THEN [ret |-> -FI_ENOMEM, name_dup |-> <<>>, dup_state |-> "none",
          nalloc |-> 0, tok |-> <<>>]
    ELSE LET t == TokLoop(strdup(nm), 0, k, <<>>) IN
         IF Len(t.tok) < k
         THEN [ret |-> -FI_EOTHER, name_dup |-> t.buf, dup_state |-> "live",
               nalloc |-> 1, tok |-> t.tok]
         ELSE IF gp = 0
         THEN LET parsed_len == SumLen(t.buf, t.tok, 1) - 1
                  last == t.tok[k]
                  at == last + strlen(t.buf, last)
              IN [ret |-> 0,
                  name_dup |-> IF Len(nm) > parsed_len
                               THEN [t.buf EXCEPT ![at + 1] = delim]
                               ELSE t.buf,
                  dup_state |-> "live", nalloc |-> 1, tok |-> t.tok]
         ELSE [ret |-> 0, name_dup |-> t.buf, dup_state |-> "live",
               nalloc |-> 1, tok |-> t.tok]

\* utilx_parse_name(name, max_tok, tok, get_prefix); oom = 1 when strdup fails
utilx_parse_name(nm, k, gp, oom) ==
    IF oom = 1
    THEN [ret |-> -FI_ENOMEM, name_dup |-> <<>>, dup_state |-> "none",
          nalloc |-> 0, tok |-> <<>>]
    ELSE LET t == TokLoop(strdup(nm), 0, k, <<>>) IN
         IF Len(t.tok) < k
         THEN [ret |-> -FI_EOTHER, name_dup |-> t.buf, dup_state |-> "freed",
               nalloc |-> 1, tok |-> t.tok]
         ELSE IF gp = 0
         THEN LET parsed_len == SumLen(t.buf, t.tok, 1) - 1
                  last == t.tok[k]
                  at == last + strlen(t.buf, last)
              IN [ret |-> 0,
                  name_dup |-> IF Len(nm) > parsed_len
                               THEN [t.buf EXCEPT ![at + 1] = delim]
                               ELSE t.buf,
                  dup_state |-> "live", nalloc |-> 1, tok |-> t.tok]
         ELSE [ret |-> 0, name_dup |-> t.buf, dup_state |-> "live",
               nalloc |-> 1, tok |-> t.tok]

\* tolower and the character codes strcasecmp compares
tolower(c) == IF c = "A" THEN "a" ELSE c
Ord(c) == CASE c = "a" -> 97 [] c = "b" -> 98 [] c = "_" -> 95 [] OTHER -> 0

\* strcasecmp(s1, s2): the difference of the first characters that differ
\* once lowered, 0 when there is none
RECURSIVE strcasecmp(_, _)
strcasecmp(s1, s2) ==
    LET c1 == IF s1 = <<>> THEN 0 ELSE Ord(tolower(Head(s1)))
        c2 == IF s2 = <<>> THEN 0 ELSE Ord(tolower(Head(s2)))
    IN IF c1 # c2 THEN c1 - c2
       ELSE IF c1 = 0 THEN 0
       ELSE strcasecmp(Tail(s1), Tail(s2))

\* snprintf(buf, len, ...) of the formatted text s: at most len - 1
\* characters and the terminator
snprintf(len, s) ==
    (IF Len(s) > len - 1 THEN SubSeq(s, 1, len - 1) ELSE s) \o <<NUL>>

\* utilx_tr_base_domain_attr: the bytes of layer_attr->name
utilx_tr_base_domain_attr(base, prefix) ==
    LET len == Len(prefix) + Len(base.name) + 2
    IN snprintf(len, prefix \o <<delim>> \o base.name)

\* utilx_tr_base_fabric_attr: the bytes of layer_attr->name
utilx_tr_base_fabric_attr(base, prefix) ==
    LET len == Len(prefix) + Len(base.name) + Len(base.prov_name) + 3
    IN snprintf(len, prefix \o <<delim>> \o base.prov_name \o <<delim>>
                     \o base.name)

(***************************************************************************)
(* SpecName: the name codec.                                               *)
(***************************************************************************)
NULLSTR == <<"(null)">>          \* a char * that is NULL
NoAttr == [name |-> NULLSTR, prov_name |-> NULLSTR]
Names == StringsOver(Alphabet, MaxLen)
\* base names: at least one character that is not the delimiter
BaseNames == {n \in StringsOver(Alphabet, MaxBaseLen) :
                 \E i \in 1..Len(n) : n[i] # delim}
LayerPrefixes == {<<"a">>, <<"A", "b">>}      \* delimiter-free, non-empty
BaseProvNames == {<<"b">>, <<"b", "a">>}      \* delimiter-free, non-empty
ProvNames == {<<"a">>, <<"a", "b">>}          \* names a provider declares
Garbage == StringsOver(Alphabet, MaxGarbage)  \* bytes found past a buffer
CheckTypes == {"FI_CHECK_LAYERED", "FI_CHECK_OTHER"}

\* what a read of the C string at buf + off yields: the string when it is
\* terminated inside the buffer, else the bytes up to the end of the buffer
\* followed by whatever lies behind it
ReadStr(buf, off, g) ==
    IF Terminated(buf, off) THEN CStr(buf, off) ELSE CStr(buf, off) \o g

\* free(tok[0]): defined only for the pointer strdup returned
FreeTok0(r) == IF r.tok[1] = 0 THEN "freed" ELSE "bad_free"

\* the undefined behaviour of a caller that reads tok[last] and frees tok[0]
CallerUB(r, last) ==
    (IF Terminated(r.name_dup, r.tok[last]) THEN {} ELSE {"overread"})
    \cup (IF r.tok[1] = 0 THEN {} ELSE {"bad_free"})

InitName ==
    /\ op = "none" /\ ret = 0
    /\ name = <<>> /\ max_tok = 0 /\ get_prefix = 0
    /\ name_dup = <<>> /\ dup_state = "none" /\ nalloc = 0 /\ tok = <<>>
    /\ ub = {} /\ crashed = FALSE
    /\ base_attr = NoAttr /\ layer_attr = NoAttr /\ tr_attr = NoAttr
    /\ pc = Unused /\ gi = Unused /\ base_hints = Unused /\ base_info = Unused
    /\ info_out = Unused /\ nfree = Unused
    /\ prov_info = Unused /\ user_info = Unused /\ log = Unused
    /\ info_in = Unused /\ hints = Unused /\ info = Unused

\* the variables a call of utilx_parse_name (direct or nested) leaves behind
ParseResult(nm, k, gp, r) ==
    /\ name' = nm /\ max_tok' = k /\ get_prefix' = gp
    /\ name_dup' = r.name_dup /\ nalloc' = r.nalloc /\ tok' = r.tok

\* a direct call of utilx_parse_name
parse_name_call ==
    /\ op = "none"
    /\ \E nm \in Names, k \in 1..MaxTok, gp \in {0, 1}, oom \in {0, 1} :
        LET r == utilx_parse_name(nm, k, gp, oom) IN
        /\ op' = "utilx_parse_name" /\ ret' = r.ret
        /\ ParseResult(nm, k, gp, r)
        /\ dup_state' = r.dup_state
        /\ ub' = {} /\ crashed' = FALSE
        /\ base_attr' = NoAttr /\ layer_attr' = NoAttr /\ tr_attr' = NoAttr
        /\ UNCHANGED <<giVars, chkVars, altVars>>

\* fi_check_name(user_name, prov_name, type)
fi_check_name_call ==
    /\ op = "none"
    /\ \E user \in Names, prov \in ProvNames, type \in CheckTypes,
       oom \in {0, 1}, crash \in BOOLEAN :
        /\ op' = "fi_check_name"
        /\ base_attr' = NoAttr /\ layer_attr' = NoAttr /\ tr_attr' = NoAttr
        /\ IF type = "FI_CHECK_LAYERED"
           THEN LET r == utilx_parse_name(user, 1, 1, oom) IN
                /\ ParseResult(user, 1, 1, r)
                /\ IF r.ret # 0
                   THEN /\ ret' = r.ret /\ dup_state' = r.dup_state
                        /\ ub' = {} /\ crashed' = FALSE
                   ELSE /\ ret' = strcasecmp(prov, CStr(r.name_dup, r.tok[1]))
                        /\ dup_state' = FreeTok0(r)
                        /\ ub' = CallerUB(r, 1)
                        /\ crashed' = (CallerUB(r, 1) # {} /\ crash)
           ELSE /\ ret' = strcasecmp(prov, user)
                /\ name' = user /\ max_tok' = 0 /\ get_prefix' = 0
                /\ name_dup' = <<>> /\ nalloc' = 0 /\ tok' = <<>>
                /\ dup_state' = "none" /\ ub' = {} /\ crashed' = FALSE
        /\ UNCHANGED <<giVars, chkVars, altVars>>

\* a consumer hands in a layered domain or fabric name of its own
user_layer_attr ==
    /\ op = "none"
    /\ \E nm \in Names :
        /\ op' = "user_layer_attr" /\ ret' = 0
        /\ layer_attr' = [name |-> nm, prov_name |-> NULLSTR]
        /\ base_attr' = NoAttr /\ tr_attr' = NoAttr
        /\ name' = <<>> /\ max_tok' = 0 /\ get_prefix' = 0
        /\ name_dup' = <<>> /\ nalloc' = 0 /\ tok' = <<>>
        /\ dup_state' = "none" /\ ub' = {} /\ crashed' = FALSE
        /\ UNCHANGED <<giVars, chkVars, altVars>>

\* utilx_tr_base_domain_attr(base_attr, prefix, layer_attr)
tr_base_domain_attr_call ==
    /\ op = "none"
    /\ \E base \in BaseNames, prefix \in LayerPrefixes, oom \in {0, 1} :
        LET b == [name |-> base, prov_name |-> NULLSTR] IN
        /\ op' = "utilx_tr_base_domain_attr"
        /\ base_attr' = b /\ tr_attr' = NoAttr
        /\ IF oom = 1
           THEN ret' = -FI_ENOMEM /\ layer_attr' = NoAttr
           ELSE /\ ret' = 0
                /\ layer_attr' = [name |-> CStr(utilx_tr_base_domain_attr(b, prefix), 0),
                                  prov_name |-> NULLSTR]
        /\ name' = <<>> /\ max_tok' = 0 /\ get_prefix' = 0
        /\ name_dup' = <<>> /\ nalloc' = 0 /\ tok' = <<>>
        /\ dup_state' = "none" /\ ub' = {} /\ crashed' = FALSE
        /\ UNCHANGED <<giVars, chkVars, altVars>>

\* utilx_tr_base_fabric_attr(base_attr, prefix, layer_attr)
tr_base_fabric_attr_call ==
    /\ op = "none"
    /\ \E base \in BaseNames, bprov \in BaseProvNames, prefix \in LayerPrefixes,
       oom \in {0, 1} :
        LET b == [name |-> base, prov_name |-> bprov] IN
        /\ op' = "utilx_tr_base_fabric_attr"
        /\ base_attr' = b /\ tr_attr' = NoAttr
        /\ IF oom = 1
           THEN ret' = -FI_ENOMEM /\ layer_attr' = NoAttr
           ELSE /\ ret' = 0
                /\ layer_attr' = [name |-> CStr(utilx_tr_base_fabric_attr(b, prefix), 0),
                                  prov_name |-> NULLSTR]
        /\ name' = <<>> /\ max_tok' = 0 /\ get_prefix' = 0
        /\ name_dup' = <<>> /\ nalloc' = 0 /\ tok' = <<>>
        /\ dup_state' = "none" /\ ub' = {} /\ crashed' = FALSE
        /\ UNCHANGED <<giVars, chkVars, altVars>>

\* utilx_tr_layer_domain_attr(layer_attr, base_attr); oom = 2: strdup(tok[1]) fails
tr_layer_domain_attr_call ==
    /\ op \in {"utilx_tr_base_domain_attr", "user_layer_attr"}
    /\ ret = 0
    /\ \E oom \in 0..2, g \in Garbage, crash \in BOOLEAN :
        LET r == utilx_parse_name(layer_attr.name, 2, 0, oom) IN
        /\ op' = "utilx_tr_layer_domain_attr"
        /\ ParseResult(layer_attr.name, 2, 0, r)
        /\ IF r.ret # 0
           THEN /\ ret' = r.ret /\ dup_state' = r.dup_state
                /\ tr_attr' = NoAttr /\ ub' = {} /\ crashed' = FALSE
           ELSE /\ ret' = IF oom = 2 THEN -FI_ENOMEM ELSE 0
                /\ tr_attr' = [name |-> IF oom = 2 THEN NULLSTR
                                        ELSE ReadStr(r.name_dup, r.tok[2], g),
                               prov_name |-> NULLSTR]
                /\ dup_state' = FreeTok0(r)
                /\ ub' = CallerUB(r, 2)
                /\ crashed' = (CallerUB(r, 2) # {} /\ crash)
        /\ UNCHANGED <<base_attr, layer_attr, giVars, chkVars, altVars>>

\* utilx_tr_layer_fabric_attr(layer_attr, base_attr); oom = 2: strdup(tok[2])
\* fails, oom = 3: strdup(tok[1]) fails
tr_layer_fabric_attr_call ==
    /\ op \in {"utilx_tr_base_fabric_attr", "user_layer_attr"}
    /\ ret = 0
    /\ \E oom \in 0..3, g \in Garbage, crash \in BOOLEAN :
        LET r == utilx_parse_name(layer_attr.name, 3, 0, oom) IN
        /\ op' = "utilx_tr_layer_fabric_attr"
        /\ ParseResult(layer_attr.name, 3, 0, r)
        /\ IF r.ret # 0
           THEN /\ ret' = r.ret /\ dup_state' = r.dup_state
                /\ tr_attr' = NoAttr /\ ub' = {} /\ crashed' = FALSE
           ELSE /\ ret' = IF oom \in {2, 3} THEN -FI_ENOMEM ELSE 0
                /\ tr_attr' = [name |-> IF oom = 2 THEN NULLSTR
                                        ELSE ReadStr(r.name_dup, r.tok[3], g),
                               prov_name |-> IF oom \in {2, 3} THEN NULLSTR
                                             ELSE CStr(r.name_dup, r.tok[2])]
                /\ dup_state' = FreeTok0(r)
                /\ ub' = CallerUB(r, 3)
                /\ crashed' = (CallerUB(r, 3) # {} /\ crash)
        /\ UNCHANGED <<base_attr, layer_attr, giVars, chkVars, altVars>>

NextName ==
    \/ parse_name_call
    \/ fi_check_name_call
    \/ user_layer_attr
    \/ tr_base_domain_attr_call
    \/ tr_base_fabric_attr_call
    \/ tr_layer_domain_attr_call
    \/ tr_layer_fabric_attr_call

SpecName == InitName /\ [][NextName]_vars

(***************************************************************************)
(* Claims about the name codec.                                            *)
(***************************************************************************)
\* the places (1-based) where a segment, a maximal run of characters other
\* than the delimiter, starts
RECURSIVE SegStarts(_, _)
SegStarts(nm, i) ==
    IF i > Len(nm) THEN <<>>
    ELSE IF nm[i] # delim /\ (i = 1 \/ nm[i - 1] = delim)
    THEN <<i>> \o SegStarts(nm, i + 1)
    ELSE SegStarts(nm, i + 1)

NumSegments(nm) == Len(SegStarts(nm, 1))
\* the input from the start of its k-th segment on
Remainder(nm, k) == SubSeq(nm, SegStarts(nm, 1)[k], Len(nm))

ParsedDirectly == op = "utilx_parse_name" /\ nalloc = 1
ParsedByCaller ==
    /\ op \in {"fi_check_name", "utilx_tr_layer_domain_attr",
               "utilx_tr_layer_fabric_attr"}
    /\ nalloc = 1

\* C3: when the name has at least max_tok segments, utilx_parse_name with
\* get_prefix = 0 succeeds and its last token is the whole rest of the name
\* from the max_tok-th segment on, delimiters restored, terminated inside
\* the copy.
C3_LastTokenIsRemainder ==
    (ParsedDirectly /\ get_prefix = 0 /\ NumSegments(name) >= max_tok)
    => /\ ret = 0
       /\ Terminated(name_dup, tok[max_tok])
       /\ CStr(name_dup, tok[max_tok]) = Remainder(name, max_tok)

\* C5: a successful utilx_parse_name made one allocation, every token points
\* into it and tok[0] is its start, so the callers' free(tok[0]) releases
\* exactly the copy.
C5_Tok0IsAllocation ==
    /\ (ParsedDirectly /\ ret = 0)
       => /\ nalloc = 1
          /\ \A i \in 1..Len(tok) : tok[i] \in 0..(Len(name_dup) - 1)
          /\ tok[1] = 0
    /\ (ParsedByCaller /\ Len(tok) = max_tok)
       => dup_state = "freed"

\* C4: composing a layered domain (fabric) name and decomposing it again
\* gives back the base domain name (the base provider and fabric names).
C4_RoundTrip ==
    /\ (op = "utilx_tr_layer_domain_attr" /\ base_attr # NoAttr
        /\ ret # -FI_ENOMEM)
       => /\ ~crashed /\ ret = 0
          /\ tr_attr.name = base_attr.name
    /\ (op = "utilx_tr_layer_fabric_attr" /\ base_attr # NoAttr
        /\ ret # -FI_ENOMEM)
       => /\ ~crashed /\ ret = 0
          /\ tr_attr.name = base_attr.name
          /\ tr_attr.prov_name = base_attr.prov_name

\* C6: a name with fewer than max_tok segments makes utilx_parse_name return
\* -FI_EOTHER, which is not -FI_ENOMEM, with the copy it made released.
C6_MalformedFreesCopy ==
    ((ParsedDirectly \/ ParsedByCaller) /\ NumSegments(name) < max_tok)
    => /\ ret = -FI_EOTHER
       /\ ret # -FI_ENOMEM
       /\ dup_state = "freed"

C6_Witness ==
    /\ ParsedDirectly /\ name = <<"a", "b", "_">> /\ max_tok = 2
    /\ ret = -FI_EOTHER /\ dup_state = "freed"

(***************************************************************************)
(* The attribute checker.  A flag word is the set of its bits; an          *)
(* attribute group is a record, NULL when the pointer is NULL.             *)
(***************************************************************************)
NULL == [null |-> TRUE]

\* address formats (the anonymous enum of include/rdma/fabric.h)
FI_FORMAT_UNSPEC == 0
FI_SOCKADDR == 1
FI_SOCKADDR_IN == 2
FI_SOCKADDR_IN6 == 3
FI_SOCKADDR_IB == 4
FI_ADDR_PSMX == 5
FI_ADDR_GNI == 6
AddrFormats == FI_FORMAT_UNSPEC..FI_ADDR_GNI

\* fi_valid_addr_format(prov_format, user_format)
fi_valid_addr_format(prov_format, user_format) ==
    IF user_format = FI_FORMAT_UNSPEC THEN TRUE
    ELSE CASE prov_format = FI_SOCKADDR -> user_format <= FI_SOCKADDR_IN6
           [] prov_format = FI_SOCKADDR_IN -> user_format <= FI_SOCKADDR_IN
           [] prov_format = FI_SOCKADDR_IN6 -> user_format <= FI_SOCKADDR_IN6
           [] prov_format = FI_SOCKADDR_IB -> user_format <= FI_SOCKADDR_IB
           [] OTHER -> prov_format = user_format

\* fi_check_name(user_name, prov_name, type): the value returned
fi_check_name(user_name, prov_name, type, oom) ==
    IF type = "FI_CHECK_LAYERED"
    THEN LET r == utilx_parse_name(user_name, 1, 1, oom) IN
         IF r.ret # 0 THEN r.ret
         ELSE strcasecmp(prov_name, CStr(r.name_dup, r.tok[1]))
    ELSE strcasecmp(prov_name, user_name)

\* a checker's result: the value returned and the first FI_INFO line
Pass == [ret |-> 0, log |-> ""]
Fail(msg) == [ret |-> -FI_ENODATA, log |-> msg]

\* fi_check_fabric_attr(prov, prov_attr, user_attr, type)
fi_check_fabric_attr(prov_attr, user_attr, type, oom) ==
    IF user_attr.name # NULLSTR
       /\ fi_check_name(user_attr.name, prov_attr.name, type, oom) # 0
    THEN Fail("Unknown fabric name")
    ELSE IF user_attr.prov_version > prov_attr.prov_version
    THEN Fail("Unsupported provider version")
    ELSE Pass

\* fi_thread_level(thread_model)
fi_thread_level(thread_model) ==
    CASE thread_model = "FI_THREAD_SAFE" -> 1
      [] thread_model = "FI_THREAD_FID" -> 2
      [] thread_model = "FI_THREAD_ENDPOINT" -> 3
      [] thread_model = "FI_THREAD_COMPLETION" -> 4
      [] thread_model = "FI_THREAD_DOMAIN" -> 5
      [] thread_model = "FI_THREAD_UNSPEC" -> 6
      [] OTHER -> -1

\* fi_progress_level(progress_model)
fi_progress_level(progress_model) ==
    CASE progress_model = "FI_PROGRESS_AUTO" -> 1
      [] progress_model = "FI_PROGRESS_MANUAL" -> 2
      [] progress_model = "FI_PROGRESS_UNSPEC" -> 3
      [] OTHER -> -1

\* fi_resource_mgmt_level(rm_model)
fi_resource_mgmt_level(rm_model) ==
    CASE rm_model = "FI_RM_ENABLED" -> 1
      [] rm_model = "FI_RM_DISABLED" -> 2
      [] rm_model = "FI_RM_UNSPEC" -> 3
      [] OTHER -> -1

\* fi_check_domain_attr(prov, prov_attr, user_attr, type)
fi_check_domain_attr(prov_attr, user_attr, type, oom) ==
    IF user_attr.name # NULLSTR
       /\ fi_check_name(user_attr.name, prov_attr.name, type, oom) # 0
    THEN Fail("Unknown domain name")
    ELSE IF fi_thread_level(user_attr.threading)
            < fi_thread_level(prov_attr.threading)
    THEN Fail("Invalid threading model")
    ELSE IF fi_progress_level(user_attr.control_progress)
            < fi_progress_level(prov_attr.control_progress)
    THEN Fail("Invalid control progress model")
    ELSE IF fi_progress_level(user_attr.data_progress)
            < fi_progress_level(prov_attr.data_progress)
    THEN Fail("Invalid data progress model")
    ELSE IF fi_resource_mgmt_level(user_attr.resource_mgmt)
            < fi_resource_mgmt_level(prov_attr.resource_mgmt)
    THEN Fail("Invalid resource mgmt model")
    ELSE IF prov_attr.av_type # "FI_AV_UNSPEC"
            /\ user_attr.av_type # "FI_AV_UNSPEC"
            /\ prov_attr.av_type # user_attr.av_type
    THEN Fail("Invalid AV type")
    ELSE IF user_attr.mr_mode # 0 /\ user_attr.mr_mode # prov_attr.mr_mode
    THEN Fail("Invalid memory registration mode")
    ELSE IF user_attr.cq_data_size > prov_attr.cq_data_size
    THEN Fail("CQ data size too large")
    ELSE Pass

\* fi_check_ep_attr(prov, prov_attr, user_attr)
fi_check_ep_attr(prov_attr, user_attr) ==
    IF user_attr.type # 0 /\ user_attr.type # prov_attr.type
    THEN Fail("Unsupported endpoint type")
    ELSE IF user_attr.protocol # 0 /\ user_attr.protocol # prov_attr.protocol
    THEN Fail("Unsupported protocol")
    ELSE IF user_attr.protocol_version # 0
            /\ user_attr.protocol_version > prov_attr.protocol_version
    THEN Fail("Unsupported protocol version")
    ELSE IF user_attr.max_msg_size > prov_attr.max_msg_size
    THEN Fail("Max message size too large")
    ELSE Pass

\* fi_check_rx_attr(prov, prov_attr, user_attr)
fi_check_rx_attr(prov_attr, user_attr) ==
    IF user_attr.caps \ prov_attr.caps # {}
    THEN Fail("caps not supported")
    ELSE IF (user_attr.mode \cap prov_attr.mode) # prov_attr.mode
    THEN Fail("needed mode not set")
    ELSE IF prov_attr.op_flags \ prov_attr.op_flags # {}
    THEN Fail("op_flags not supported")
    ELSE IF user_attr.msg_order \ prov_attr.msg_order # {}
    THEN Fail("msg_order not supported")
    ELSE IF user_attr.comp_order \ prov_attr.comp_order # {}
    THEN Fail("comp_order not supported")
    ELSE IF user_attr.total_buffered_recv > prov_attr.total_buffered_recv
    THEN Fail("total_buffered_recv too large")
    ELSE IF user_attr.size > prov_attr.size
    THEN Fail("size is greater than supported")
    ELSE IF user_attr.iov_limit > prov_attr.iov_limit
    THEN Fail("iov_limit too large")
    ELSE Pass

\* fi_check_tx_attr(prov, prov_attr, user_attr)
fi_check_tx_attr(prov_attr, user_attr) ==
    IF user_attr.caps \ prov_attr.caps # {}
    THEN Fail("caps not supported")
    ELSE IF (user_attr.mode \cap prov_attr.mode) # prov_attr.mode
    THEN Fail("needed mode not set")
    ELSE IF prov_attr.op_flags \ prov_attr.op_flags # {}
    THEN Fail("op_flags not supported")
    ELSE IF user_attr.msg_order \ prov_attr.msg_order # {}
    THEN Fail("msg_order not supported")
    ELSE IF user_attr.comp_order \ prov_attr.comp_order # {}
    THEN Fail("comp_order not supported")
    ELSE IF user_attr.inject_size > prov_attr.inject_size
    THEN Fail("inject_size too large")
    ELSE IF user_attr.size > prov_attr.size
    THEN Fail("size is greater than supported")
    ELSE IF user_attr.iov_limit > prov_attr.iov_limit
    THEN Fail("iov_limit too large")
    ELSE IF user_attr.rma_iov_limit > prov_attr.rma_iov_limit
    THEN Fail("rma_iov_limit too large")
    ELSE Pass

\* the attribute groups of fi_check_info, from the fabric group on: each
\* group is checked when the request has it, the first failure is returned
CheckGroups(p, u, type, oom) ==
    LET f == IF u.fabric_attr # NULL
             THEN fi_check_fabric_attr(p.fabric_attr, u.fabric_attr, type, oom)
             ELSE Pass
        d == IF u.domain_attr # NULL
             THEN fi_check_domain_attr(p.domain_attr, u.domain_attr, type, oom)
             ELSE Pass
        e == IF u.ep_attr # NULL
             THEN fi_check_ep_attr(p.ep_attr, u.ep_attr) ELSE Pass
        r == IF u.rx_attr # NULL
             THEN fi_check_rx_attr(p.rx_attr, u.rx_attr) ELSE Pass
        t == IF u.tx_attr # NULL
             THEN fi_check_tx_attr(p.tx_attr, u.tx_attr) ELSE Pass
    IN IF f.ret # 0 THEN f
       ELSE IF d.ret # 0 THEN d
       ELSE IF e.ret # 0 THEN e
       ELSE IF r.ret # 0 THEN r
       ELSE IF t.ret # 0 THEN t
       ELSE Pass

\* fi_check_info(prov, prov_info, user_info, type)
fi_check_info(p, u, type, oom) ==
    IF u = NULL THEN Pass
    ELSE IF u.caps \ p.caps # {}
    THEN Fail("Unsupported capabilities")
    ELSE IF (u.mode \cap p.mode) # p.mode
    THEN Fail("needed mode not set")
    ELSE IF ~fi_valid_addr_format(p.addr_format, u.addr_format)
    THEN Fail("address format not supported")
    ELSE CheckGroups(p, u, type, oom)

(***************************************************************************)
(* SpecCheck: calls of the checkers.                                       *)
(***************************************************************************)
MaxSize == 2       \* sizes, limits and versions range over 0..MaxSize

\* capability bits: negotiable, provider-fixed, and one in neither mask
FI_PRIMARY_CAPS == {"FI_MSG", "FI_RMA"}
FI_SECONDARY_CAPS == {"FI_SOURCE"}
CapBits == FI_PRIMARY_CAPS \cup FI_SECONDARY_CAPS \cup {"FI_BIT_OTHER"}
ModeBits == {"FI_CONTEXT", "FI_LOCAL_MR"}
OpFlagBits == {"FI_COMPLETION", "FI_INJECT"}
OrderBits == {"FI_ORDER_SAS", "FI_ORDER_RAW"}

UnknownEnum == "(unknown)"      \* a value outside the enumeration
Threading == {"FI_THREAD_UNSPEC", "FI_THREAD_SAFE", "FI_THREAD_FID",
              "FI_THREAD_DOMAIN", "FI_THREAD_COMPLETION",
              "FI_THREAD_ENDPOINT", UnknownEnum}
Progress == {"FI_PROGRESS_UNSPEC", "FI_PROGRESS_AUTO", "FI_PROGRESS_MANUAL",
             UnknownEnum}
ResourceMgmt == {"FI_RM_UNSPEC", "FI_RM_DISABLED", "FI_RM_ENABLED",
                 UnknownEnum}
AvTypes == {"FI_AV_UNSPEC", "FI_AV_MAP", "FI_AV_TABLE"}
Sizes == 0..MaxSize

\* r with the field p[1] set to p[2]
With(r, p) == [r EXCEPT ![p[1]] = p[2]]

\* the provider's declared attributes
ProvFabric == [name |-> <<"a">>, prov_version |-> 1]
ProvDomain ==
    [name |-> <<"a">>, threading |-> "FI_THREAD_SAFE",
     control_progress |-> "FI_PROGRESS_AUTO",
     data_progress |-> "FI_PROGRESS_AUTO", resource_mgmt |-> "FI_RM_ENABLED",
     av_type |-> "FI_AV_MAP", mr_mode |-> 1, cq_data_size |-> 1]
ProvEp == [type |-> 1, protocol |-> 1, protocol_version |-> 1,
           max_msg_size |-> 1, tx_ctx_cnt |-> 1, rx_ctx_cnt |-> 1]
ProvRx == [caps |-> {"FI_MSG", "FI_SOURCE"}, mode |-> {"FI_CONTEXT"},
           op_flags |-> {"FI_COMPLETION"}, msg_order |-> {"FI_ORDER_SAS"},
           comp_order |-> {"FI_ORDER_SAS"}, total_buffered_recv |-> 1,
           size |-> 1, iov_limit |-> 1]
ProvTx == [caps |-> {"FI_MSG", "FI_SOURCE"}, mode |-> {"FI_CONTEXT"},
           op_flags |-> {"FI_COMPLETION"}, msg_order |-> {"FI_ORDER_SAS"},
           comp_order |-> {"FI_ORDER_SAS"}, inject_size |-> 1, size |-> 1,
           iov_limit |-> 1, rma_iov_limit |-> 1]
ProvInfo == [caps |-> {"FI_MSG", "FI_SOURCE"}, mode |-> {"FI_CONTEXT"},
             addr_format |-> FI_SOCKADDR, fabric_attr |-> ProvFabric,
             domain_attr |-> ProvDomain, ep_attr |-> ProvEp,
             rx_attr |-> ProvRx, tx_attr |-> ProvTx]

\* a request every check accepts against the provider above
UserFabric == [name |-> NULLSTR, prov_version |-> 1]
UserDomain == [ProvDomain EXCEPT !.name = NULLSTR]
UserEp == ProvEp
UserRx == ProvRx
UserTx == ProvTx
UserInfo == [ProvInfo EXCEPT !.fabric_attr = NULL, !.domain_attr = NULL,
                             !.ep_attr = NULL, !.rx_attr = NULL,
                             !.tx_attr = NULL]

\* names a request carries; none starts with the delimiter, so that the
\* free(tok[0]) of fi_check_name is defined
UserNames == {NULLSTR, <<"a">>, <<"A", "_", "b">>, <<"b">>, <<"b", "_", "a">>}

RankedChange ==
    {<<"control_progress", v>> : v \in Progress}
    \cup {<<"data_progress", v>> : v \in Progress}
    \cup {<<"resource_mgmt", v>> : v \in ResourceMgmt}
DomainChange ==
    RankedChange
    \cup {<<"name", v>> : v \in UserNames}
    \cup {<<"av_type", v>> : v \in AvTypes}
    \cup {<<"mr_mode", v>> : v \in Sizes}
    \cup {<<"cq_data_size", v>> : v \in Sizes}
ProvDomains ==
    {With([ProvDomain EXCEPT !.threading = t], c) :
        t \in Threading, c \in RankedChange}
UserDomains ==
    {With([UserDomain EXCEPT !.threading = t], c) :
        t \in Threading, c \in DomainChange}

RxChange ==
    {<<"caps", v>> : v \in SUBSET CapBits}
    \cup {<<"mode", v>> : v \in SUBSET ModeBits}
    \cup {<<"msg_order", v>> : v \in SUBSET OrderBits}
    \cup {<<"comp_order", v>> : v \in SUBSET OrderBits}
    \cup {<<"total_buffered_recv", v>> : v \in Sizes}
    \cup {<<"size", v>> : v \in Sizes}
    \cup {<<"iov_limit", v>> : v \in Sizes}
TxChange ==
    {<<"caps", v>> : v \in SUBSET CapBits}
    \cup {<<"mode", v>> : v \in SUBSET ModeBits}
    \cup {<<"msg_order", v>> : v \in SUBSET OrderBits}
    \cup {<<"comp_order", v>> : v \in SUBSET OrderBits}
    \cup {<<"inject_size", v>> : v \in Sizes}
    \cup {<<"size", v>> : v \in Sizes}
    \cup {<<"iov_limit", v>> : v \in Sizes}
    \cup {<<"rma_iov_limit", v>> : v \in Sizes}
ProvRxs == {[ProvRx EXCEPT !.op_flags = f] : f \in SUBSET OpFlagBits}
ProvTxs == {[ProvTx EXCEPT !.op_flags = f] : f \in SUBSET OpFlagBits}
UserRxs == {With([UserRx EXCEPT !.op_flags = f], c) :
               f \in SUBSET OpFlagBits, c \in RxChange}
UserTxs == {With([UserTx EXCEPT !.op_flags = f], c) :
               f \in SUBSET OpFlagBits, c \in TxChange}

InfoChange ==
    {<<"caps", v>> : v \in {{}, {"FI_MSG"}, {"FI_MSG", "FI_RMA"}}}
    \cup {<<"mode", v>> : v \in SUBSET ModeBits}
    \cup {<<"addr_format", v>> : v \in AddrFormats}
ProvInfos == {[ProvInfo EXCEPT !.addr_format = a] : a \in AddrFormats}
UserInfos ==
    {[With(UserInfo, c) EXCEPT !.fabric_attr = f, !.domain_attr = d,
                               !.ep_attr = e, !.rx_attr = r, !.tx_attr = t] :
        c \in InfoChange,
        f \in {NULL, UserFabric, [UserFabric EXCEPT !.name = <<"b", "_", "a">>]},
        d \in {NULL, UserDomain, [UserDomain EXCEPT !.threading = UnknownEnum]},
        e \in {NULL, UserEp, [UserEp EXCEPT !.max_msg_size = MaxSize]},
        r \in {NULL, UserRx, [UserRx EXCEPT !.op_flags = OpFlagBits]},
        t \in {NULL, UserTx, [UserTx EXCEPT !.op_flags = OpFlagBits]}}
    \cup {NULL}

InitCheck ==
    /\ op = "none" /\ ret = 0
    /\ prov_info = NULL /\ user_info = NULL /\ log = ""
    /\ name = Unused /\ max_tok = Unused /\ get_prefix = Unused
    /\ name_dup = Unused /\ dup_state = Unused /\ nalloc = Unused
    /\ tok = Unused /\ ub = Unused /\ crashed = Unused
    /\ base_attr = Unused /\ layer_attr = Unused /\ tr_attr = Unused
    /\ pc = Unused /\ gi = Unused /\ base_hints = Unused /\ base_info = Unused
    /\ info_out = Unused /\ nfree = Unused
    /\ info_in = Unused /\ hints = Unused /\ info = Unused

\* the variables a checker call leaves behind
Checked(fn, p, u, r) ==
    /\ op' = fn /\ prov_info' = p /\ user_info' = u
    /\ ret' = r.ret /\ log' = r.log
    /\ UNCHANGED <<nameVars, giVars, altVars>>

fi_check_info_call ==
    /\ op = "none"
    /\ \E p \in ProvInfos, u \in UserInfos, type \in CheckTypes :
        Checked("fi_check_info", p, u, fi_check_info(p, u, type, 0))

fi_check_domain_attr_call ==
    /\ op = "none"
    /\ \E p \in ProvDomains, u \in UserDomains, type \in CheckTypes,
          oom \in {0, 1} :
        Checked("fi_check_domain_attr", p, u,
                fi_check_domain_attr(p, u, type, oom))

fi_check_rx_attr_call ==
    /\ op = "none"
    /\ \E p \in ProvRxs, u \in UserRxs :
        Checked("fi_check_rx_attr", p, u, fi_check_rx_attr(p, u))

fi_check_tx_attr_call ==
    /\ op = "none"
    /\ \E p \in ProvTxs, u \in UserTxs :
        Checked("fi_check_tx_attr", p, u, fi_check_tx_attr(p, u))

NextCheck ==
    \/ fi_check_info_call
    \/ fi_check_domain_attr_call
    \/ fi_check_rx_attr_call
    \/ fi_check_tx_attr_call

SpecCheck == InitCheck /\ [][NextCheck]_vars

(***************************************************************************)
(* Claims about the checker.                                               *)
(***************************************************************************)
\* the compatibility table of address formats as the specification words it
AddrCompatible(p, u) ==
    \/ u = FI_FORMAT_UNSPEC
    \/ p = FI_SOCKADDR /\ u \in {FI_SOCKADDR, FI_SOCKADDR_IN, FI_SOCKADDR_IN6}
    \/ p = FI_SOCKADDR_IN /\ u = FI_SOCKADDR_IN
    \/ p = FI_SOCKADDR_IN6 /\ u = FI_SOCKADDR_IN6
    \/ p = FI_SOCKADDR_IB /\ u = FI_SOCKADDR_IB
    \/ p \notin {FI_SOCKADDR, FI_SOCKADDR_IN, FI_SOCKADDR_IN6, FI_SOCKADDR_IB}
       /\ u = p

\* C7: once the capability and mode checks of fi_check_info pass, the call
\* fails on the address format exactly for the pairs (provider format,
\* requested format) that the compatibility table rejects.
C7_AddrFormatTable ==
    (/\ op = "fi_check_info" /\ user_info # NULL
     /\ user_info.caps \subseteq prov_info.caps
     /\ prov_info.mode \subseteq user_info.mode)
    => ((log = "address format not supported" /\ ret = -FI_ENODATA)
        <=> ~AddrCompatible(prov_info.addr_format, user_info.addr_format))

ThreadingOK(u, p) ==
    /\ fi_thread_level(u) # -1 /\ fi_thread_level(p) # -1
    /\ fi_thread_level(u) >= fi_thread_level(p)
ProgressOK(u, p) ==
    /\ fi_progress_level(u) # -1 /\ fi_progress_level(p) # -1
    /\ fi_progress_level(u) >= fi_progress_level(p)
ResourceMgmtOK(u, p) ==
    /\ fi_resource_mgmt_level(u) # -1 /\ fi_resource_mgmt_level(p) # -1
    /\ fi_resource_mgmt_level(u) >= fi_resource_mgmt_level(p)
RankLogs == {"Invalid threading model", "Invalid control progress model",
             "Invalid data progress model", "Invalid resource mgmt model"}

\* C8: fi_check_domain_attr gets past the four ranked fields exactly when,
\* for each of them, the requested and the provider value are both known and
\* rank(requested) >= rank(provider); otherwise it returns -FI_ENODATA.
C8_RankedFields ==
    (op = "fi_check_domain_attr" /\ log # "Unknown domain name")
    => /\ (log \notin RankLogs)
          <=> /\ ThreadingOK(user_info.threading, prov_info.threading)
              /\ ProgressOK(user_info.control_progress,
                            prov_info.control_progress)
              /\ ProgressOK(user_info.data_progress, prov_info.data_progress)
              /\ ResourceMgmtOK(user_info.resource_mgmt,
                                prov_info.resource_mgmt)
       /\ (log \in RankLogs) => ret = -FI_ENODATA

\* C9: a request whose op_flags hold a bit the provider's do not is refused
\* by fi_check_rx_attr and by fi_check_tx_attr with -FI_ENODATA and the
\* op_flags diagnostic (the capability and mode checks before it passing),
\* and fi_check_info fails for it.
C9_OpFlagsSubset ==
    /\ (/\ op \in {"fi_check_rx_attr", "fi_check_tx_attr"}
        /\ user_info.caps \subseteq prov_info.caps
        /\ prov_info.mode \subseteq user_info.mode
        /\ ~(user_info.op_flags \subseteq prov_info.op_flags))
       => (ret = -FI_ENODATA /\ log = "op_flags not supported")
    /\ (/\ op = "fi_check_info" /\ user_info # NULL
        /\ \/ /\ user_info.rx_attr # NULL
              /\ ~(user_info.rx_attr.op_flags
                       \subseteq prov_info.rx_attr.op_flags)
           \/ /\ user_info.tx_attr # NULL
              /\ ~(user_info.tx_attr.op_flags
                       \subseteq prov_info.tx_attr.op_flags))
       => ret # 0

(***************************************************************************)
(* SpecAlter: fi_alter_info.                                               *)
(***************************************************************************)
\* fi_alter_ep_attr(attr, hints)
fi_alter_ep_attr(attr, h) ==
    IF h = NULL THEN attr
    ELSE [attr EXCEPT
            !.tx_ctx_cnt = IF h.tx_ctx_cnt # 0 THEN h.tx_ctx_cnt ELSE @,
            !.rx_ctx_cnt = IF h.rx_ctx_cnt # 0 THEN h.rx_ctx_cnt ELSE @]

\* fi_alter_rx_attr that forgets to keep the secondary capabilities
fi_alter_rx_attr_dropSecondary(attr, h, info_caps) ==
    IF h = NULL
    THEN [attr EXCEPT !.caps = info_caps \cap attr.caps \cap FI_PRIMARY_CAPS]
    ELSE [attr EXCEPT
            !.op_flags = h.op_flags,
            !.caps = h.caps \cap FI_PRIMARY_CAPS,
            !.total_buffered_recv = h.total_buffered_recv,
            !.size = IF h.size # 0 THEN h.size ELSE @,
            !.iov_limit = IF h.iov_limit # 0 THEN h.iov_limit ELSE @]

\* fi_alter_rx_attr(attr, hints, info_caps)
fi_alter_rx_attr(attr, h, info_caps) ==
    IF h = NULL
    THEN [attr EXCEPT
            !.caps = (info_caps \cap attr.caps \cap FI_PRIMARY_CAPS)
                     \cup (attr.caps \cap FI_SECONDARY_CAPS)]
    ELSE [attr EXCEPT
            !.op_flags = h.op_flags,
            !.caps = (h.caps \cap FI_PRIMARY_CAPS)
                     \cup (attr.caps \cap FI_SECONDARY_CAPS),
            !.total_buffered_recv = h.total_buffered_recv,
            !.size = IF h.size # 0 THEN h.size ELSE @,
            !.iov_limit = IF h.iov_limit # 0 THEN h.iov_limit ELSE @]

\* fi_alter_tx_attr(attr, hints, info_caps)
fi_alter_tx_attr(attr, h, info_caps) ==
    IF h = NULL
    THEN [attr EXCEPT
            !.caps = (info_caps \cap attr.caps \cap FI_PRIMARY_CAPS)
                     \cup (attr.caps \cap FI_SECONDARY_CAPS)]
    ELSE [attr EXCEPT
            !.op_flags = h.op_flags,
            !.caps = (h.caps \cap FI_PRIMARY_CAPS)
                     \cup (attr.caps \cap FI_SECONDARY_CAPS),
            !.inject_size = IF h.inject_size # 0 THEN h.inject_size ELSE @,
            !.size = IF h.size # 0 THEN h.size ELSE @,
            !.iov_limit = IF h.iov_limit # 0 THEN h.iov_limit ELSE @,
            !.rma_iov_limit = IF h.rma_iov_limit # 0 THEN h.rma_iov_limit
                              ELSE @]

\* fi_alter_info(info, hints): the record it leaves
fi_alter_info(i, h) ==
    IF h = NULL THEN i
    ELSE LET caps == (h.caps \cap FI_PRIMARY_CAPS)
                     \cup (i.caps \cap FI_SECONDARY_CAPS)
         IN [i EXCEPT
               !.caps = caps,
               !.ep_attr = fi_alter_ep_attr(@, h.ep_attr),
               !.rx_attr = fi_alter_rx_attr(@, h.rx_attr, caps),
               !.tx_attr = fi_alter_tx_attr(@, h.tx_attr, caps)]

\* the records a provider returns
AlterInfos ==
    {[ProvInfo EXCEPT !.caps = c, !.rx_attr.caps = rc, !.tx_attr.caps = tc] :
        c \in SUBSET CapBits,
        rc \in {{"FI_MSG", "FI_SOURCE"}, CapBits},
        tc \in {{"FI_RMA"}, CapBits}}

EpHints ==
    {NULL} \cup {[UserEp EXCEPT !.tx_ctx_cnt = t, !.rx_ctx_cnt = r] :
                    t \in Sizes, r \in Sizes}
RxHintChange ==
    {<<"op_flags", v>> : v \in SUBSET OpFlagBits}
    \cup {<<"mode", v>> : v \in {{}, ModeBits}}
    \cup {<<"msg_order", v>> : v \in {{}, OrderBits}}
    \cup {<<"total_buffered_recv", v>> : v \in Sizes}
    \cup {<<"size", v>> : v \in Sizes}
    \cup {<<"iov_limit", v>> : v \in Sizes}
TxHintChange ==
    {<<"op_flags", v>> : v \in SUBSET OpFlagBits}
    \cup {<<"mode", v>> : v \in {{}, ModeBits}}
    \cup {<<"comp_order", v>> : v \in {{}, OrderBits}}
    \cup {<<"inject_size", v>> : v \in Sizes}
    \cup {<<"size", v>> : v \in Sizes}
    \cup {<<"iov_limit", v>> : v \in Sizes}
    \cup {<<"rma_iov_limit", v>> : v \in Sizes}
RxHints ==
    {NULL} \cup {With([UserRx EXCEPT !.caps = c], ch) :
                    c \in {{}, CapBits}, ch \in RxHintChange}
TxHints ==
    {NULL} \cup {With([UserTx EXCEPT !.caps = c], ch) :
                    c \in {{}, CapBits}, ch \in TxHintChange}
\* the groups of a hints record: one group ranges over all its variants, the
\* other two are absent or the plain request
HintGroups ==
    (EpHints \X {NULL, UserRx} \X {NULL, UserTx})
    \cup ({NULL, UserEp} \X RxHints \X {NULL, UserTx})
    \cup ({NULL, UserEp} \X {NULL, UserRx} \X TxHints)
AlterHints ==
    {NULL} \cup
    {[UserInfo EXCEPT !.caps = c, !.mode = m, !.addr_format = FI_SOCKADDR_IN,
                      !.ep_attr = g[1], !.rx_attr = g[2], !.tx_attr = g[3]] :
        c \in {{}, {"FI_MSG"}, {"FI_RMA", "FI_BIT_OTHER"}, CapBits},
        m \in {{}}, g \in HintGroups}

InitAlter ==
    /\ op = "none" /\ ret = 0
    /\ info_in = NULL /\ hints = NULL /\ info = NULL
    /\ name = Unused /\ max_tok = Unused /\ get_prefix = Unused
    /\ name_dup = Unused /\ dup_state = Unused /\ nalloc = Unused
    /\ tok = Unused /\ ub = Unused /\ crashed = Unused
    /\ base_attr = Unused /\ layer_attr = Unused /\ tr_attr = Unused
    /\ pc = Unused /\ gi = Unused /\ base_hints = Unused /\ base_info = Unused
    /\ info_out = Unused /\ nfree = Unused
    /\ prov_info = Unused /\ user_info = Unused /\ log = Unused

fi_alter_info_call ==
    /\ op = "none"
    /\ \E i \in AlterInfos, h \in AlterHints :
        /\ op' = "fi_alter_info"
        /\ info_in' = i /\ hints' = h
        /\ info' = fi_alter_info(i, h)
        /\ UNCHANGED <<ret, nameVars, giVars, chkVars>>

NextAlter == fi_alter_info_call

SpecAlter == InitAlter /\ [][NextAlter]_vars

\* the fields of r outside the set w are those of r0
SameOutside(r, r0, w) == \A f \in (DOMAIN r) \ w : r[f] = r0[f]
SameSecondary(r, r0) ==
    r.caps \cap FI_SECONDARY_CAPS = r0.caps \cap FI_SECONDARY_CAPS

\* C10: fi_alter_info leaves the secondary capability bits of info->caps,
\* rx_attr->caps and tx_attr->caps as they were and writes no field other
\* than caps, the two context counts, rx {caps, op_flags,
\* total_buffered_recv, size, iov_limit} and tx {caps, op_flags, inject_size,
\* size, iov_limit, rma_iov_limit}; with NULL hints the record is unchanged.
C10_AlterFrame ==
    op = "fi_alter_info"
    => /\ SameSecondary(info, info_in)
       /\ SameSecondary(info.rx_attr, info_in.rx_attr)
       /\ SameSecondary(info.tx_attr, info_in.tx_attr)
       /\ SameOutside(info, info_in, {"caps", "ep_attr", "rx_attr", "tx_attr"})
       /\ SameOutside(info.ep_attr, info_in.ep_attr,
                      {"tx_ctx_cnt", "rx_ctx_cnt"})
       /\ SameOutside(info.rx_attr, info_in.rx_attr,
                      {"caps", "op_flags", "total_buffered_recv", "size",
                       "iov_limit"})
       /\ SameOutside(info.tx_attr, info_in.tx_attr,
                      {"caps", "op_flags", "inject_size", "size", "iov_limit",
                       "rma_iov_limit"})
       /\ (hints = NULL => info = info_in)

\* hints that change the record of a provider with a secondary capability
\* the hints do not name
C10_Witness ==
    /\ op = "fi_alter_info" /\ hints # NULL /\ hints.rx_attr # NULL
    /\ "FI_SOURCE" \in info_in.rx_attr.caps
    /\ "FI_SOURCE" \notin hints.rx_attr.caps
    /\ "FI_SOURCE" \in info.rx_attr.caps
    /\ info.rx_attr.op_flags # info_in.rx_attr.op_flags
    /\ info.caps # info_in.caps

(***************************************************************************)
(* SpecGetinfo: utilx_getinfo, one action per statement.  tr_layer_info,   *)
(* fi_getinfo and tr_base_info are the caller's and the base provider's:   *)
(* each answers with success or with failure.                              *)
(***************************************************************************)
\* fi_freeinfo(record): the state of the record afterwards
fi_freeinfo(state) == IF state = "live" THEN "freed" ELSE "double_free"

\* requests handed to the layered provider "a"
GiHints ==
    {NULL} \cup
    {[With(UserInfo, c) EXCEPT !.fabric_attr = f] :
        c \in InfoChange,
        f \in {NULL, [UserFabric EXCEPT !.name = <<"a", "_", "b", "_", "a">>],
               [UserFabric EXCEPT !.name = <<"b", "_", "b", "_", "a">>]}}
GetinfoErrors == {-FI_ENODATA, -FI_ENOMEM}

InitGetinfo ==
    /\ op = "none" /\ ret = 0
    /\ pc = "idle"
    /\ gi = [hints |-> NULL, get_base_info |-> 0, check_ret |-> 0,
             layer_ok |-> FALSE]
    /\ base_hints = "none" /\ base_info = "none" /\ info_out = "unset"
    /\ nfree = [base_hints |-> 0, base_info |-> 0]
    /\ name = Unused /\ max_tok = Unused /\ get_prefix = Unused
    /\ name_dup = Unused /\ dup_state = Unused /\ nalloc = Unused
    /\ tok = Unused /\ ub = Unused /\ crashed = Unused
    /\ base_attr = Unused /\ layer_attr = Unused /\ tr_attr = Unused
    /\ prov_info = Unused /\ user_info = Unused /\ log = Unused
    /\ info_in = Unused /\ hints = Unused /\ info = Unused

giRest == <<nameVars, chkVars, altVars>>

\* the call: utilx_getinfo(..., prov_info, hints, ..., get_base_info, info)
utilx_getinfo_call ==
    /\ pc = "idle"
    /\ \E h \in GiHints, g \in {0, 1} :
        gi' = [gi EXCEPT !.hints = h, !.get_base_info = g]
    /\ op' = "utilx_getinfo" /\ pc' = "check"
    /\ UNCHANGED <<ret, base_hints, base_info, info_out, nfree, giRest>>

\* ret = fi_check_info(prov, prov_info, hints, FI_CHECK_LAYERED);
\* if (ret) return ret;
gi_check ==
    /\ pc = "check"
    /\ \E oom \in {0, 1} :
        ret' = fi_check_info(ProvInfo, gi.hints, "FI_CHECK_LAYERED", oom).ret
    /\ gi' = [gi EXCEPT !.check_ret = ret']
    /\ pc' = IF ret' # 0 THEN "returned" ELSE "tr_layer"
    /\ UNCHANGED <<op, base_hints, base_info, info_out, nfree, giRest>>

\* if (!(base_hints = tr_layer_info(hints))) return -FI_ENOMEM;
gi_tr_layer ==
    /\ pc = "tr_layer"
    /\ \E ok \in BOOLEAN :
        /\ gi' = [gi EXCEPT !.layer_ok = ok]
        /\ base_hints' = IF ok THEN "live" ELSE base_hints
        /\ ret' = IF ok THEN ret ELSE -FI_ENOMEM
        /\ pc' = IF ok THEN "getinfo" ELSE "returned"
    /\ UNCHANGED <<op, base_info, info_out, nfree, giRest>>

\* gi_getinfo returning at once when the base fi_getinfo fails
gi_getinfo_returnOnError ==
    /\ pc = "getinfo"
    /\ \E e \in {0} \cup GetinfoErrors :
        /\ ret' = e
        /\ base_info' = IF e = 0 THEN "live" ELSE base_info
        /\ pc' = IF e = 0 THEN "select" ELSE "returned"
    /\ UNCHANGED <<op, gi, base_hints, info_out, nfree, giRest>>

\* ret = fi_getinfo(version, node, service, flags, base_hints, &base_info);
\* if (ret) goto out;
gi_getinfo ==
    /\ pc = "getinfo"
    /\ \E e \in {0} \cup GetinfoErrors :
        /\ ret' = e
        /\ base_info' = IF e = 0 THEN "live" ELSE base_info
        /\ pc' = IF e = 0 THEN "select" ELSE "out"
    /\ UNCHANGED <<op, gi, base_hints, info_out, nfree, giRest>>

\* if (get_base_info) { *info = base_info; } else { ... }
gi_select ==
    /\ pc = "select"
    /\ info_out' = IF gi.get_base_info # 0 THEN "base_info" ELSE info_out
    /\ pc' = IF gi.get_base_info # 0 THEN "out" ELSE "tr_base"
    /\ UNCHANGED <<op, ret, gi, base_hints, base_info, nfree, giRest>>

\* if (!(*info = tr_base_info(base_info))) { ret = -FI_ENOMEM; goto out; }
gi_tr_base ==
    /\ pc = "tr_base"
    /\ \E ok \in BOOLEAN :
        /\ info_out' = IF ok THEN "layer_info" ELSE "NULL"
        /\ ret' = IF ok THEN ret ELSE -FI_ENOMEM
        /\ pc' = IF ok THEN "free_base" ELSE "out"
    /\ UNCHANGED <<op, gi, base_hints, base_info, nfree, giRest>>

\* fi_freeinfo(base_info);
gi_free_base ==
    /\ pc = "free_base"
    /\ base_info' = fi_freeinfo(base_info)
    /\ nfree' = [nfree EXCEPT !.base_info = @ + 1]
    /\ pc' = "out"
    /\ UNCHANGED <<op, ret, gi, base_hints, info_out, giRest>>

\* out: fi_freeinfo(base_hints); return ret;
gi_out ==
    /\ pc = "out"
    /\ base_hints' = fi_freeinfo(base_hints)
    /\ nfree' = [nfree EXCEPT !.base_hints = @ + 1]
    /\ pc' = "returned"
    /\ UNCHANGED <<op, ret, gi, base_info, info_out, giRest>>

NextGetinfo ==
    \/ utilx_getinfo_call
    \/ gi_check
    \/ gi_tr_layer
    \/ gi_getinfo
    \/ gi_select
    \/ gi_tr_base
    \/ gi_free_base
    \/ gi_out

SpecGetinfo == InitGetinfo /\ [][NextGetinfo]_vars

\* C1: when utilx_getinfo returns after the base fi_getinfo produced a base
\* result, that record was released exactly once, unless it was handed to
\* the caller through *info (get_base_info), and then it was not released.
C1_BaseInfoReleased ==
    (pc = "returned" /\ base_info # "none")
    => IF info_out = "base_info"
       THEN base_info = "live" /\ nfree.base_info = 0
       ELSE base_info = "freed" /\ nfree.base_info = 1

\* C2: base_hints is released exactly once on every exit taken after
\* tr_layer_info produced it, and never twice; when fi_check_info fails or
\* tr_layer_info returns NULL the call returns with no translated hints and
\* no base result allocated or released.
C2_BaseHintsReleasedOnce ==
    /\ nfree.base_hints <= 1 /\ base_hints # "double_free"
    /\ (pc = "returned" /\ base_hints # "none")
       => (base_hints = "freed" /\ nfree.base_hints = 1)
    /\ (pc = "returned" /\ (gi.check_ret # 0 \/ ~gi.layer_ok))
       => /\ base_hints = "none" /\ base_info = "none"
          /\ nfree = [base_hints |-> 0, base_info |-> 0]

\* the exit after a failed base fi_getinfo
C2_Witness ==
    /\ pc = "returned" /\ gi.layer_ok /\ ret = -FI_ENODATA
    /\ base_info = "none" /\ base_hints = "freed" /\ nfree.base_hints = 1

====
